---- MODULE Spec2Model ----
(***************************************************************************)
(* Model of db-checker.js: the link audit of one MongoDB collection.       *)
(*                                                                         *)
(* A text value is a sequence of tokens.  A token is either one of the     *)
(* literal substrings the program searches for ("http://", "https://",     *)
(* "youtube.com", "youtu.be") or a single character: "a" an ordinary       *)
(* character, "/" the path delimiter, " " a whitespace character and "'"   *)
(* a quote character (in the hand-picked documents only).  The program     *)
(* only ever asks of a text whether it contains or starts with one of      *)
(* these substrings and where the runs of non-whitespace, non-quote        *)
(* characters end, so a token sequence carries everything the code reads.  *)
(***************************************************************************)
EXTENDS Integers, Sequences, FiniteSets, TLC

\* ------------------------------------------------------------------ bounds

\* longest text value of the single-text inputs, in tokens
MaxLen == 4
\* largest number of hand-picked documents in a collection (padding excluded)
MaxDocs == 2
\* collection.find({}).limit(10)
SampleLimit == 10

\* ------------------------------------------------------------------- texts

Schemes == {"http://", "https://"}
Separators == {" ", "'"}
Tokens == {"http://", "https://", "youtube.com", "youtu.be", "a", "/", " "}

RECURSIVE TextsUpTo(_)
TextsUpTo(n) ==
  IF n = 0 THEN {<<>>}
  ELSE LET shorter == TextsUpTo(n - 1)
       IN  shorter \cup {Append(t, c) : t \in shorter, c \in Tokens}

\* text.includes(sub) for one of the searched substrings
Includes(text, sub) == \E i \in 1..Len(text) : text[i] = sub

\* text.startsWith('http://') || text.startsWith('https://')
StartsWithScheme(text) == Len(text) >= 1 /\ text[1] \in Schemes

\* value.includes('http://') || value.includes('https://')
IncludesScheme(text) == Includes(text, "http://") \/ Includes(text, "https://")

\* the last position of the maximal run of non-whitespace, non-quote
\* characters that starts at position i (i - 1 when the run is empty)
RECURSIVE RunEnd(_, _)
RunEnd(text, i) ==
  IF i > Len(text) \/ text[i] \in Separators THEN i - 1
  ELSE RunEnd(text, i + 1)

\* the scheme alternatives of the pattern: https?:\/\/
SchemePattern(tok) == tok \in Schemes

\* text.match(/(https?:\/\/[^\s"']+)/g) || [], scanning from position i
RECURSIVE MatchFrom(_, _)
MatchFrom(text, i) ==
  IF i > Len(text) THEN <<>>
  ELSE IF SchemePattern(text[i]) /\ RunEnd(text, i + 1) >= i + 1
       THEN <<SubSeq(text, i, RunEnd(text, i + 1))>>
              \o MatchFrom(text, RunEnd(text, i + 1) + 1)
       ELSE MatchFrom(text, i + 1)

extractUrlsFromText(text) == MatchFrom(text, 1)

\* -------------------------------------------------------------- documents

\* A field value: a string (kind "Text"), an array (kind "Seq") whose items
\* are strings or other things, or anything else (kind "Other": a number, an
\* ObjectId).  A key the document does not have reads as undefined.
TextValue(t) == [kind |-> "Text", text |-> t, items |-> <<>>]
SeqValue(its) == [kind |-> "Seq", text |-> <<>>, items |-> its]
OtherValue == [kind |-> "Other", text |-> <<>>, items |-> <<>>]
Undefined == [kind |-> "Undefined", text |-> <<>>, items |-> <<>>]

\* A document: its _id and its other keys in insertion order.
Doc(id, fields) == [id |-> id, fields |-> fields]

\* Object.keys(doc)
Keys(doc) == <<"_id">> \o [i \in 1..Len(doc.fields) |-> doc.fields[i].key]

\* doc[key]
Get(doc, key) ==
  IF key = "_id" THEN OtherValue
  ELSE IF \E i \in 1..Len(doc.fields) : doc.fields[i].key = key
       THEN doc.fields[CHOOSE i \in 1..Len(doc.fields) : doc.fields[i].key = key].value
       ELSE Undefined

\* !value
Falsy(value) ==
  value.kind = "Undefined" \/ (value.kind = "Text" /\ value.text = <<>>)

\* ---------------------------------------------------------- field sniffing

\* item => typeof item === 'string' && (item.includes('http://') || ...)
SniffItem(item) == item.kind = "Text" /\ IncludesScheme(item.text)

\* the two branches that end in candidateFields.add(key)
SniffValue_HttpOnly(value) ==
  \/ value.kind = "Text" /\ Includes(value.text, "http://")
  \/ value.kind = "Seq" /\ \E i \in 1..Len(value.items) : SniffItem(value.items[i])
SniffValue(value) ==
  \/ value.kind = "Text" /\ IncludesScheme(value.text)
  \/ value.kind = "Seq" /\ \E i \in 1..Len(value.items) : SniffItem(value.items[i])

\* Set.prototype.add on a set kept in insertion order
SetAdd(fields, key) ==
  IF \E i \in 1..Len(fields) : fields[i] = key THEN fields ELSE Append(fields, key)

\* Object.keys(doc).forEach(key => ...) from the i-th key on
RECURSIVE SniffKeys(_, _, _)
SniffKeys(fields, doc, i) ==
  IF i > Len(Keys(doc)) THEN fields
  ELSE SniffKeys(IF SniffValue(Get(doc, Keys(doc)[i]))
                 THEN SetAdd(fields, Keys(doc)[i]) ELSE fields,
                 doc, i + 1)

\* ------------------------------------------------- first pass: the counting

CountTextUrls_NoFallback(text) == extractUrlsFromText(text)
CountTextUrls(text) ==
  IF extractUrlsFromText(text) = <<>> /\ StartsWithScheme(text)
  THEN <<text>>
  ELSE extractUrlsFromText(text)

RECURSIVE CountItemsUrls(_, _)
CountItemsUrls(items, i) ==
  IF i > Len(items) THEN <<>>
  ELSE (IF items[i].kind = "Text"
        THEN (IF extractUrlsFromText(items[i].text) = <<>>
                 /\ StartsWithScheme(items[i].text)
              THEN <<items[i].text>>
              ELSE extractUrlsFromText(items[i].text))
        ELSE <<>>) \o CountItemsUrls(items, i + 1)

\* the urls of one field value as the first pass collects them
CountUrls(value) ==
  IF Falsy(value) THEN <<>>
  ELSE IF value.kind = "Text" THEN CountTextUrls(value.text)
  ELSE IF value.kind = "Seq" THEN CountItemsUrls(value.items, 1)
  ELSE <<>>

\* ------------------------------------------------ second pass: the checking

CheckTextUrls(text) ==
  IF extractUrlsFromText(text) = <<>> /\ StartsWithScheme(text)
  THEN <<text>>
  ELSE extractUrlsFromText(text)

RECURSIVE CheckItemsUrls(_, _)
CheckItemsUrls(items, i) ==
  IF i > Len(items) THEN <<>>
  ELSE (IF items[i].kind = "Text"
        THEN (IF extractUrlsFromText(items[i].text) = <<>>
                 /\ StartsWithScheme(items[i].text)
              THEN <<items[i].text>>
              ELSE extractUrlsFromText(items[i].text))
        ELSE <<>>) \o CheckItemsUrls(items, i + 1)

\* the urls of one field value as the second pass collects them
CheckUrls(value) ==
  IF Falsy(value) THEN <<>>
  ELSE IF value.kind = "Text" THEN CheckTextUrls(value.text)
  ELSE IF value.kind = "Seq" THEN CheckItemsUrls(value.items, 1)
  ELSE <<>>

\* ----------------------------------------------------------------- checkUrl

\* !url || url.trim() === ''
Blank(url) == \A i \in 1..Len(url) : url[i] = " "

\* url.includes('youtube.com') || url.includes('youtu.be')
isYouTube(url) == Includes(url, "youtube.com") \/ Includes(url, "youtu.be")

unavailablePhrases ==
  { "This video is no longer available", "Video unavailable",
    "This video is private", "has been removed" }

\* unavailablePhrases.some(phrase => text.includes(phrase))
HasUnavailablePhrase(body) == \E p \in unavailablePhrases : Includes(body, p)

\* What the network can answer.  A response body is a sequence of chunks: a
\* marker phrase or some other text.
Statuses == {200, 301, 403, 404, 500}
BodyChunks == unavailablePhrases \cup {"other text"}
Bodies == {<<>>} \cup {<<c>> : c \in BodyChunks}
Rejected == [ok |-> FALSE, status |-> 0, body |-> <<>>]
Response(status) == [ok |-> TRUE, status |-> status, body |-> <<>>]
BodyRead(body) == [ok |-> TRUE, status |-> 0, body |-> body]
FetchOutcomes == {Rejected} \cup {Response(st) : st \in Statuses}
TextOutcomes == {Rejected} \cup {BodyRead(b) : b \in Bodies}

\* the record of one call of checkUrl: the requests it issued, what came
\* back, and its return value once it has returned
NoCheck == [url |-> <<>>, requests |-> <<>>, answers |-> <<>>,
            returned |-> FALSE, broken |-> FALSE]
Issue(check, method) == [check EXCEPT !.requests = Append(@, method)]
Answer(check, outcome) == [check EXCEPT !.answers = Append(@, outcome)]
Return(check, broken) == [check EXCEPT !.returned = TRUE, !.broken = broken]

\* ------------------------------------------------------------------ inputs

PlainUrl == <<"http://", "a">>
VideoUrl == <<"https://", "youtube.com", "/", "a">>
Field(key, value) == [key |-> key, value |-> value]

\* the hand-picked documents, without their _id
DocShapes ==
  { \* a plain link and a video link
    << Field("link", TextValue(PlainUrl)), Field("video", TextValue(VideoUrl)) >>,
    \* keys in the other order: an array with a bare scheme after a number,
    \* and a text that mentions a scheme but holds no url
    << Field("video", SeqValue(<<OtherValue, TextValue(<<"http://">>)>>)),
       Field("link", TextValue(<<"a", " ", "https://">>)) >>,
    \* one array item holding the same url twice, quoted
    << Field("link", SeqValue(<<TextValue(PlainUrl \o <<"'">> \o PlainUrl)>>)) >>,
    \* no link at all, and an empty string
    << Field("link", TextValue(<<"a">>)), Field("video", TextValue(<<>>)) >> }

PadShape == << >>

\* how many padding documents go before and after the hand-picked ones
Paddings == { <<0, 0>>, <<SampleLimit - 1, 0>>, <<SampleLimit, 0>> }

Heads == UNION {[1..n -> DocShapes] : n \in 0..MaxDocs}

Collection(head, pad) ==
  [i \in 1..(pad[1] + Len(head) + pad[2]) |->
     Doc(i, IF i > pad[1] /\ i <= pad[1] + Len(head) THEN head[i - pad[1]]
            ELSE PadShape)]

\* a collection of one document with one text field
TextCollection(t) == << Doc(1, << Field("link", TextValue(t)) >>) >>

Collections ==
  {Collection(h, p) : h \in Heads, p \in Paddings}
    \cup {TextCollection(t) : t \in TextsUpTo(MaxLen)}

\* ------------------------------------------------------------------- state

VARIABLES
  collection,        \* the documents of the selected collection
  state,             \* where main is
  sampleDocs,        \* main: sampleDocs
  sniffed,           \* how many of sampleDocs the forEach has visited
  candidateFields,   \* main: candidateFields, in insertion order
  docs,              \* main: docs
  countDoc,          \* first pass: index of the document being counted
  countField,        \* first pass: index of the field being counted
  totalLinks,        \* main: totalLinks
  checkDoc,          \* second pass: index of the current document
  checkField,        \* second pass: index of the current field
  urls,              \* second pass: urls of the current field
  checkedUrls,       \* second pass: how many of urls are done
  currentLink,       \* main: currentLink
  brokenLinksCount,  \* main: brokenLinksCount
  awaiting,          \* checkUrl: the await it is suspended at
  lastCheck,         \* the latest call of checkUrl
  output,            \* what console.log and process.stdout.write printed
  errlog             \* what console.error printed

vars ==
  << collection, state, sampleDocs, sniffed, candidateFields, docs, countDoc,
     countField, totalLinks, checkDoc, checkField, urls, checkedUrls,
     currentLink, brokenLinksCount, awaiting, lastCheck, output, errlog >>

sniffVars == << sampleDocs, sniffed, candidateFields >>
countVars == << docs, countDoc, countField, totalLinks >>
loopVars == << checkDoc, checkField, urls >>

Init ==
  /\ collection \in Collections
  /\ state = "Idle"
  /\ sampleDocs = <<>>
  /\ sniffed = 0
  /\ candidateFields = <<>>
  /\ docs = <<>>
  /\ countDoc = 1
  /\ countField = 1
  /\ totalLinks = 0
  /\ checkDoc = 1
  /\ checkField = 0
  /\ urls = <<>>
  /\ checkedUrls = 0
  /\ currentLink = 0
  /\ brokenLinksCount = 0
  /\ awaiting = "none"
  /\ lastCheck = NoCheck
  /\ output = <<>>
  /\ errlog = <<>>

\* ----------------------------------------------------------------- helpers

Take(seq, n) == SubSeq(seq, 1, IF Len(seq) < n THEN Len(seq) ELSE n)

BrokenEvent(index) ==
  [type |-> "broken", field |-> candidateFields[checkField],
   id |-> docs[checkDoc].id, url |-> urls[checkedUrls + 1],
   index |-> index, total |-> totalLinks]
ProgressEvent(index) == [type |-> "progress", index |-> index, total |-> totalLinks]

\* Report with the link numbered from 0
Report_ZeroBased(index, broken) ==
  IF broken
  THEN /\ output' = Append(output, BrokenEvent(index - 1))
       /\ brokenLinksCount' = brokenLinksCount + 1
  ELSE /\ output' = Append(output, ProgressEvent(index - 1))
       /\ UNCHANGED brokenLinksCount

\* Report without brokenLinksCount++
Report_NoIncrement(index, broken) ==
  /\ output' = Append(output, IF broken THEN BrokenEvent(index) ELSE ProgressEvent(index))
  /\ UNCHANGED brokenLinksCount

\* if (broken) { console.log(...); brokenLinksCount++ } else { process.stdout.write(...) }
Report(index, broken) ==
  IF broken
  THEN /\ output' = Append(output, BrokenEvent(index))
       /\ brokenLinksCount' = brokenLinksCount + 1
  ELSE /\ output' = Append(output, ProgressEvent(index))
       /\ UNCHANGED brokenLinksCount

\* checkUrl returns `broken` to the loop, which reports and moves on
Returns(check, index, broken) ==
  /\ lastCheck' = Return(check, broken)
  /\ awaiting' = "none"
  /\ Report(index, broken)
  /\ checkedUrls' = checkedUrls + 1
  /\ UNCHANGED << collection, state, sniffVars, countVars, loopVars >>

\* checkUrl without its try/catch: the rejection reaches the catch of main,
\* which prints the error and ends the process
Catches_Rethrows(check, index) ==
  /\ errlog' = Append(errlog, check.url)
  /\ lastCheck' = check
  /\ awaiting' = "none"
  /\ state' = "Failed"
  /\ UNCHANGED << collection, sniffVars, countVars, loopVars, checkedUrls,
                  brokenLinksCount, output >>

\* the catch of checkUrl returning false
Catches_NotBroken(check, index) ==
  /\ errlog' = Append(errlog, check.url)
  /\ Returns(check, index, FALSE)

\* catch (error) { console.error(...); return true; }
Catches(check, index) ==
  /\ errlog' = Append(errlog, check.url)
  /\ Returns(check, index, TRUE)

\* ----------------------------------------------------------------- actions

\* const sampleDocs = await collection.find({}).limit(10).toArray();
StartSniffing ==
  /\ state = "Idle"
  /\ state' = "Sniffing"
  /\ sampleDocs' = Take(collection, SampleLimit)
  /\ candidateFields' = <<>>
  /\ sniffed' = 0
  /\ UNCHANGED << collection, countVars, loopVars, checkedUrls, currentLink,
                  brokenLinksCount, awaiting, lastCheck, output, errlog >>

\* one turn of sampleDocs.forEach
SniffDoc ==
  /\ state = "Sniffing"
  /\ sniffed < Len(sampleDocs)
  /\ candidateFields' = SniffKeys(candidateFields, sampleDocs[sniffed + 1], 1)
  /\ sniffed' = sniffed + 1
  /\ UNCHANGED << collection, state, sampleDocs, countVars, loopVars, checkedUrls,
                  currentLink, brokenLinksCount, awaiting, lastCheck, output, errlog >>

\* the early exit without process.exit(0): main goes on to the first pass
NoLinksDetected_FallsThrough ==
  /\ state = "Sniffing"
  /\ sniffed = Len(sampleDocs)
  /\ candidateFields = <<>>
  /\ output' = Append(output, [type |-> "nolinks"])
  /\ state' = "CountingPass"
  /\ UNCHANGED << collection, sniffVars, countVars, loopVars, checkedUrls,
                  currentLink, brokenLinksCount, awaiting, lastCheck, errlog >>

\* if (candidateFields.size === 0) { console.log(...); process.exit(0); }
NoLinksDetected ==
  /\ state = "Sniffing"
  /\ sniffed = Len(sampleDocs)
  /\ candidateFields = <<>>
  /\ output' = Append(output, [type |-> "nolinks"])
  /\ state' = "NoLinksFound"
  /\ UNCHANGED << collection, sniffVars, countVars, loopVars, checkedUrls,
                  currentLink, brokenLinksCount, awaiting, lastCheck, errlog >>

\* the detected fields are printed, all documents loaded, totalLinks = 0
LoadDocs ==
  /\ state = "Sniffing"
  /\ sniffed = Len(sampleDocs)
  /\ candidateFields # <<>>
  /\ output' = Append(output, [type |-> "fields", fields |-> candidateFields])
  /\ docs' = collection
  /\ totalLinks' = 0
  /\ countDoc' = 1
  /\ countField' = 1
  /\ state' = "CountingPass"
  /\ UNCHANGED << collection, sniffVars, loopVars, checkedUrls, currentLink,
                  brokenLinksCount, awaiting, lastCheck, errlog >>

\* one turn of candidateFields.forEach inside docs.forEach
CountField ==
  /\ state = "CountingPass"
  /\ countDoc <= Len(docs)
  /\ totalLinks' =
       totalLinks + Len(CountUrls(Get(docs[countDoc], candidateFields[countField])))
  /\ IF countField < Len(candidateFields)
     THEN countField' = countField + 1 /\ UNCHANGED countDoc
     ELSE countField' = 1 /\ countDoc' = countDoc + 1
  /\ UNCHANGED << collection, state, sniffVars, docs, loopVars, checkedUrls,
                  currentLink, brokenLinksCount, awaiting, lastCheck, output, errlog >>

\* the second pass started without printing the total
BeginChecking_Silent ==
  /\ state = "CountingPass"
  /\ countDoc > Len(docs)
  /\ currentLink' = 0
  /\ brokenLinksCount' = 0
  /\ checkDoc' = 1
  /\ checkField' = 0
  /\ urls' = <<>>
  /\ checkedUrls' = 0
  /\ state' = "CheckingPass"
  /\ UNCHANGED << collection, sniffVars, countVars, awaiting, lastCheck, output,
                  errlog >>

\* console.log(`Total links to check: ...`); currentLink = 0; brokenLinksCount = 0
BeginChecking ==
  /\ state = "CountingPass"
  /\ countDoc > Len(docs)
  /\ output' = Append(output, [type |-> "total", total |-> totalLinks])
  /\ currentLink' = 0
  /\ brokenLinksCount' = 0
  /\ checkDoc' = 1
  /\ checkField' = 0
  /\ urls' = <<>>
  /\ checkedUrls' = 0
  /\ state' = "CheckingPass"
  /\ UNCHANGED << collection, sniffVars, countVars, awaiting, lastCheck, errlog >>

\* the second pass enters the next field (of the next document when the
\* fields of this one are done) and collects its urls
NextField ==
  /\ state = "CheckingPass"
  /\ awaiting = "none"
  /\ checkedUrls = Len(urls)
  /\ \/ /\ checkField < Len(candidateFields)
        /\ checkField' = checkField + 1
        /\ UNCHANGED checkDoc
     \/ /\ checkField = Len(candidateFields)
        /\ checkDoc < Len(docs)
        /\ checkField' = 1
        /\ checkDoc' = checkDoc + 1
  /\ urls' = CheckUrls(Get(docs[checkDoc'], candidateFields[checkField']))
  /\ checkedUrls' = 0
  /\ UNCHANGED << collection, state, sniffVars, countVars, currentLink,
                  brokenLinksCount, awaiting, lastCheck, output, errlog >>

\* currentLink++; checkUrl(url) runs up to its first await
IssueCheck ==
  /\ state = "CheckingPass"
  /\ awaiting = "none"
  /\ checkedUrls < Len(urls)
  /\ currentLink' = currentLink + 1
  /\ LET url == urls[checkedUrls + 1]
         check == [NoCheck EXCEPT !.url = url]
     IN  IF Blank(url)
         THEN Returns(check, currentLink + 1, FALSE) /\ UNCHANGED errlog
         ELSE /\ IF isYouTube(url)
                 THEN lastCheck' = Issue(check, "GET") /\ awaiting' = "videoPage"
                 ELSE lastCheck' = Issue(check, "HEAD") /\ awaiting' = "probe"
              /\ UNCHANGED << collection, state, sniffVars, countVars, loopVars,
                              checkedUrls, brokenLinksCount, output, errlog >>

\* await fetch(url, { method: 'HEAD' }) settles
ProbeSettles ==
  /\ state = "CheckingPass"
  /\ awaiting = "probe"
  /\ \E outcome \in FetchOutcomes :
       LET check == Answer(lastCheck, outcome)
       IN  IF ~outcome.ok
           THEN Catches(check, currentLink) /\ UNCHANGED currentLink
           ELSE IF outcome.status = 404
           THEN /\ lastCheck' = Issue(check, "GET")
                /\ awaiting' = "fallback"
                /\ UNCHANGED << collection, state, sniffVars, countVars, loopVars,
                                checkedUrls, currentLink, brokenLinksCount, output,
                                errlog >>
           ELSE Returns(check, currentLink, FALSE) /\ UNCHANGED << currentLink, errlog >>

\* await fetch(url, { method: 'GET' }) after a 404 settles
FallbackSettles ==
  /\ state = "CheckingPass"
  /\ awaiting = "fallback"
  /\ \E outcome \in FetchOutcomes :
       LET check == Answer(lastCheck, outcome)
       IN  IF ~outcome.ok
           THEN Catches(check, currentLink) /\ UNCHANGED currentLink
           ELSE Returns(check, currentLink, outcome.status = 404)
                  /\ UNCHANGED << currentLink, errlog >>

\* await fetch(url, { method: 'GET' }) of a YouTube url settles
VideoPageSettles ==
  /\ state = "CheckingPass"
  /\ awaiting = "videoPage"
  /\ \E outcome \in FetchOutcomes :
       LET check == Answer(lastCheck, outcome)
       IN  IF ~outcome.ok
           THEN Catches(check, currentLink) /\ UNCHANGED currentLink
           ELSE /\ lastCheck' = check
                /\ awaiting' = "videoText"
                /\ UNCHANGED << collection, state, sniffVars, countVars, loopVars,
                                checkedUrls, currentLink, brokenLinksCount, output,
                                errlog >>

\* await response.text() settles
VideoTextSettles ==
  /\ state = "CheckingPass"
  /\ awaiting = "videoText"
  /\ \E outcome \in TextOutcomes :
       LET check == Answer(lastCheck, outcome)
       IN  IF ~outcome.ok
           THEN Catches(check, currentLink) /\ UNCHANGED currentLink
           ELSE Returns(check, currentLink, HasUnavailablePhrase(outcome.body))
                  /\ UNCHANGED << currentLink, errlog >>

\* console.log(`Link check complete! Processed ... documents and found ...`)
Summarize ==
  /\ state = "CheckingPass"
  /\ awaiting = "none"
  /\ checkedUrls = Len(urls)
  /\ checkField = Len(candidateFields)
  /\ checkDoc = Len(docs)
  /\ output' = Append(output, [type |-> "complete", documents |-> Len(docs),
                               broken |-> brokenLinksCount])
  /\ state' = "Summarized"
  /\ UNCHANGED << collection, sniffVars, countVars, loopVars, checkedUrls,
                  currentLink, brokenLinksCount, awaiting, lastCheck, errlog >>

Next ==
  \/ StartSniffing
  \/ SniffDoc
  \/ NoLinksDetected
  \/ LoadDocs
  \/ CountField
  \/ BeginChecking
  \/ NextField
  \/ IssueCheck
  \/ ProbeSettles
  \/ FallbackSettles
  \/ VideoPageSettles
  \/ VideoTextSettles
  \/ Summarize

Spec == Init /\ [][Next]_vars

\* every step of main is taken once it can be, and every fetch settles
FairSpec == Spec /\ WF_vars(Next)

\* ------------------------------------------- the canonical enumeration

Range(seq) == {seq[i] : i \in 1..Len(seq)}
Last(seq) == seq[Len(seq)]

\* the urls of one text: those the pattern finds or, when it finds none and
\* the text begins with a scheme, the text itself
OccurrencesOfText(text) ==
  IF extractUrlsFromText(text) # <<>> THEN extractUrlsFromText(text)
  ELSE IF StartsWithScheme(text) THEN <<text>> ELSE <<>>

RECURSIVE OccurrencesOfItems(_)
OccurrencesOfItems(items) ==
  IF items = <<>> THEN <<>>
  ELSE (IF Head(items).kind = "Text" THEN OccurrencesOfText(Head(items).text) ELSE <<>>)
         \o OccurrencesOfItems(Tail(items))

OccurrencesOfValue(value) ==
  CASE value.kind = "Text" -> OccurrencesOfText(value.text)
    [] value.kind = "Seq" -> OccurrencesOfItems(value.items)
    [] OTHER -> <<>>

OccurrencesOfField(doc, field) ==
  LET found == OccurrencesOfValue(Get(doc, field))
  IN  [i \in 1..Len(found) |-> [id |-> doc.id, field |-> field, url |-> found[i]]]

RECURSIVE OccurrencesOfDoc(_, _)
OccurrencesOfDoc(doc, fields) ==
  IF fields = <<>> THEN <<>>
  ELSE OccurrencesOfField(doc, Head(fields)) \o OccurrencesOfDoc(doc, Tail(fields))

\* document order, then field order, then the order within the value
RECURSIVE Harvest(_, _)
Harvest(documents, fields) ==
  IF documents = <<>> THEN <<>>
  ELSE OccurrencesOfDoc(Head(documents), fields) \o Harvest(Tail(documents), fields)

IsCheckEvent(e) == e.type \in {"broken", "progress"}
CheckEvents == SelectSeq(output, IsCheckEvent)
IsBrokenEvent(e) == e.type = "broken"
BrokenEvents == SelectSeq(output, IsBrokenEvent)
Checking == state \in {"CheckingPass", "Summarized"}

\* ------------------------------------------------------------------ claims

\* C1: the counting pass and the checking pass enumerate the same link
\* occurrences in the same order: the urls the second pass collects for a
\* field are those the first pass counted for it, the running index never
\* exceeds the total during the checking pass, and it equals the total
\* when the session is Summarized.
C1_PassesAgree ==
  /\ (state = "CheckingPass" /\ checkField >= 1) =>
       urls = CountUrls(Get(docs[checkDoc], candidateFields[checkField]))
  /\ state = "CheckingPass" => currentLink <= totalLinks
  /\ state = "Summarized" =>
       currentLink = totalLinks /\ totalLinks = Len(Harvest(docs, candidateFields))

\* C1 witness: a finished session over several documents whose links came
\* from the pattern and from the whole-text fallback.
C1_Witness ==
  /\ state = "Summarized"
  /\ Len(docs) = 2
  /\ currentLink = 3
  /\ \E i \in 1..Len(output) :
       output[i].type = "broken" /\ output[i].url = <<"http://">>

\* C2: the session moves only Idle -> Sniffing, then either to NoLinksFound
\* (exactly when sniffing ended with no candidate field) or to CountingPass
\* (when it ended with some), CountingPass -> CheckingPass only when the
\* count is complete, and CheckingPass -> Summarized; no other move exists,
\* so no state is skipped or revisited.
C2_StateSequence ==
  [][ state' # state =>
        \/ state = "Idle" /\ state' = "Sniffing"
        \/ /\ state = "Sniffing" /\ state' = "NoLinksFound"
           /\ sniffed = Len(sampleDocs) /\ candidateFields = <<>>
        \/ /\ state = "Sniffing" /\ state' = "CountingPass"
           /\ sniffed = Len(sampleDocs) /\ candidateFields # <<>>
        \/ /\ state = "CountingPass" /\ state' = "CheckingPass"
           /\ countDoc > Len(docs)
        \/ state = "CheckingPass" /\ state' = "Summarized" ]_vars

\* C2 witness: a session that went the long way although no link was found
\* in the candidate fields.
C2_Witness ==
  /\ state = "Summarized"
  /\ candidateFields # <<>>
  /\ totalLinks = 0

\* C3: under fair scheduling (every fetch settles, every step of main is
\* taken) the session eventually reaches Summarized or NoLinksFound.
C3_Terminates == <>(state \in {"Summarized", "NoLinksFound"})

\* C3 witness: a session that reached Summarized although fetches failed at
\* the probe and at the read of a video page.
C3_Witness ==
  /\ state = "Summarized"
  /\ Len(errlog) >= 2
  /\ \E i, j \in 1..Len(errlog) : isYouTube(errlog[i]) /\ ~isYouTube(errlog[j])

\* C4: a step in which a fetch (or the read of a body) fails makes checkUrl
\* return broken: the session stays in the checking pass, one broken-link
\* record with the running index is printed, the broken count grows by one,
\* the loop moves to the next url of the same enumeration; and a session
\* that saw a failure still checks every occurrence.
C4_FailureAbsorbed ==
  /\ [][ ( /\ Len(lastCheck'.answers) = Len(lastCheck.answers) + 1
           /\ lastCheck'.url = lastCheck.url
           /\ ~Last(lastCheck'.answers).ok )
         => /\ lastCheck'.returned /\ lastCheck'.broken
            /\ state' = "CheckingPass" /\ awaiting' = "none"
            /\ currentLink' = currentLink
            /\ brokenLinksCount' = brokenLinksCount + 1
            /\ output' = Append(output,
                 [type |-> "broken", field |-> candidateFields[checkField],
                  id |-> docs[checkDoc].id, url |-> lastCheck.url,
                  index |-> currentLink, total |-> totalLinks])
            /\ checkedUrls' = checkedUrls + 1
            /\ UNCHANGED << checkDoc, checkField, urls, totalLinks, docs,
                            candidateFields >> ]_vars
  /\ [](errlog # <<>> => Checking)
  /\ []((errlog # <<>> /\ state = "Summarized") => Len(CheckEvents) = totalLinks)

\* C4 witness: a finished session whose first check failed at transport
\* level and whose last check found a working link.
C4_Witness ==
  /\ state = "Summarized"
  /\ errlog # <<>>
  /\ CheckEvents[1].type = "broken" /\ CheckEvents[1].url = errlog[1]
  /\ Last(CheckEvents).type = "progress"
  /\ Last(CheckEvents).index >= 2

\* the host of a url: what follows the scheme and any further slashes, up
\* to the next slash
RECURSIVE SkipSlashes(_)
SkipSlashes(rest) ==
  IF rest # <<>> /\ Head(rest) = "/" THEN SkipSlashes(Tail(rest)) ELSE rest

RECURSIVE UpToSlash(_)
UpToSlash(rest) ==
  IF rest = <<>> \/ Head(rest) = "/" THEN <<>>
  ELSE <<Head(rest)>> \o UpToSlash(Tail(rest))

HostOf(url) == UpToSlash(SkipSlashes(Tail(url)))

HostIndicatesYouTube(url) ==
  Includes(HostOf(url), "youtube.com") \/ Includes(HostOf(url), "youtu.be")

\* the url has a host: a non-empty run of name characters after its scheme
HasHost(url) ==
  /\ url # <<>>
  /\ Head(url) \in Schemes
  /\ HostOf(url) # <<>>
  /\ \A i \in 1..Len(HostOf(url)) : HostOf(url)[i] \in {"a", "youtube.com", "youtu.be"}

NoTransportFailure(check) == \A i \in 1..Len(check.answers) : check.answers[i].ok

\* C5: a check of a non-empty url that has a host which does not indicate YouTube, and
\* none of whose fetches failed, starts with a HEAD probe; it returns broken
\* exactly when the probe and the one GET that follows it both answer 404;
\* any other probe status returns not broken after that single fetch; no
\* check issues more than two fetches.
C5_StatusRule ==
  /\ Len(lastCheck.requests) <= 2
  /\ ( /\ ~Blank(lastCheck.url)
       /\ HasHost(lastCheck.url)
       /\ ~HostIndicatesYouTube(lastCheck.url)
       /\ NoTransportFailure(lastCheck) )
     => /\ lastCheck.requests # <<>> /\ lastCheck.requests[1] = "HEAD"
        /\ lastCheck.returned =>
             /\ lastCheck.broken <=>
                  ( /\ lastCheck.answers[1].status = 404
                    /\ lastCheck.requests = <<"HEAD", "GET">>
                    /\ lastCheck.answers[2].status = 404 )
             /\ lastCheck.answers[1].status # 404 =>
                  ~lastCheck.broken /\ lastCheck.requests = <<"HEAD">>

\* C6: the content rule is used exactly for the urls whose host contains
\* youtube.com or youtu.be: the first request of a check of a url that has
\* a host is a GET if and
\* only if the host indicates YouTube, such a check issues that one GET and
\* nothing else, and, when nothing failed, it returns broken exactly when the
\* body read holds one of the four phrases, whatever the status.
C6_ContentRule ==
  ( HasHost(lastCheck.url) /\ lastCheck.requests # <<>> )
  => /\ lastCheck.requests[1] = "GET" <=> HostIndicatesYouTube(lastCheck.url)
     /\ HostIndicatesYouTube(lastCheck.url) =>
          /\ lastCheck.requests = <<"GET">>
          /\ (lastCheck.returned /\ NoTransportFailure(lastCheck)) =>
               ( lastCheck.broken <=>
                   \E p \in unavailablePhrases : Includes(lastCheck.answers[2].body, p) )

\* C7: the k-th check is of the k-th occurrence of the canonical
\* enumeration, every occurrence checked so far has produced exactly one
\* event, the k-th event carries index k and the total of the counting pass
\* (and, for a broken-link record, the document, field and url of the k-th
\* occurrence), and a finished session has one event per occurrence.
C7_IndexedEvents ==
  Checking =>
    LET occ == Harvest(docs, candidateFields)
        ev == CheckEvents
    IN  /\ currentLink <= Len(occ)
        /\ Len(ev) = IF awaiting = "none" THEN currentLink ELSE currentLink - 1
        /\ \A k \in 1..Len(ev) :
             /\ ev[k].index = k
             /\ ev[k].total = totalLinks
             /\ ev[k].type = "broken" =>
                  /\ ev[k].id = occ[k].id
                  /\ ev[k].field = occ[k].field
                  /\ ev[k].url = occ[k].url
        /\ currentLink >= 1 => lastCheck.url = occ[currentLink].url
        /\ state = "Summarized" => Len(ev) = Len(occ)

\* C7 witness: a finished session in which the same url was found broken in
\* two different occurrences.
C7_Witness ==
  /\ state = "Summarized"
  /\ \E i, j \in 1..Len(CheckEvents) :
       /\ i < j
       /\ CheckEvents[i].type = "broken" /\ CheckEvents[j].type = "broken"
       /\ CheckEvents[i].url = CheckEvents[j].url
       /\ CheckEvents[i].id # CheckEvents[j].id

\* a value that holds a link as far as sniffing is concerned
HoldsLink(value) ==
  \/ value.kind = "Text" /\ \E s \in Schemes : Includes(value.text, s)
  \/ /\ value.kind = "Seq"
     /\ \E i \in 1..Len(value.items) :
          /\ value.items[i].kind = "Text"
          /\ \E s \in Schemes : Includes(value.items[i].text, s)

KeysOf(documents) == UNION {Range(Keys(documents[i])) : i \in 1..Len(documents)}

LinkFields(documents) ==
  {k \in KeysOf(documents) : \E i \in 1..Len(documents) : HoldsLink(Get(documents[i], k))}

\* C8: while sniffing, candidateFields holds exactly the fields in which a
\* document visited so far holds a link; after sniffing it holds exactly the
\* fields in which one of the first SampleLimit documents does; no step ever
\* removes a field from it.
C8_Sniffing ==
  /\ [](state = "Sniffing" =>
          Range(candidateFields) = LinkFields(Take(collection, sniffed)))
  /\ [](state \notin {"Idle", "Sniffing"} =>
          Range(candidateFields) = LinkFields(Take(collection, SampleLimit)))
  /\ [](Len(candidateFields) = Cardinality(Range(candidateFields)))
  /\ [][Range(candidateFields) \subseteq Range(candidateFields')]_vars

\* C8 witness: a finished session over a collection in which a field holds a
\* link only in a document outside the sample, and was not selected.
C8_Witness ==
  /\ state = "Summarized"
  /\ Len(collection) > SampleLimit
  /\ LinkFields(collection) \ Range(candidateFields) # {}

\* C9 as stated: the broken count equals the number of broken-link records
\* printed and never exceeds the running index, and the summary reports
\* the number of documents, the total of the counting pass, the broken count
\* and the broken-link records.
C9_SummaryReportsTotal ==
  /\ Checking => brokenLinksCount = Len(BrokenEvents) /\ brokenLinksCount <= currentLink
  /\ state = "Summarized" =>
       /\ Last(output).type = "complete"
       /\ Last(output).documents = Len(collection)
       /\ Last(output).broken = brokenLinksCount
       /\ "total" \in DOMAIN Last(output)
       /\ "records" \in DOMAIN Last(output)

\* C9 as amended: the broken count equals the number of broken-link records
\* printed so far, grows by one exactly when a check returns broken, and
\* never exceeds the running index; the summary line reports the number of
\* documents of the whole collection and the broken count, and nothing else:
\* the total was printed once, before the first check, and the broken-link
\* records were printed in the order of their indices.
C9_Counters ==
  /\ [](Checking => /\ brokenLinksCount = Len(BrokenEvents)
                    /\ brokenLinksCount <= currentLink)
  /\ [][checkedUrls' = checkedUrls + 1 =>
          /\ lastCheck'.returned
          /\ brokenLinksCount' = brokenLinksCount + (IF lastCheck'.broken THEN 1 ELSE 0)]_vars
  /\ [](state = "Summarized" =>
          /\ Last(output) = [type |-> "complete", documents |-> Len(collection),
                             broken |-> brokenLinksCount]
          /\ \E i \in 1..Len(output) :
               /\ output[i] = [type |-> "total", total |-> totalLinks]
               /\ \A j \in 1..Len(output) : IsCheckEvent(output[j]) => i < j
          /\ \A i, j \in 1..Len(BrokenEvents) :
               i < j => BrokenEvents[i].index < BrokenEvents[j].index)

\* C9 witness: a finished session over more documents than the sample holds,
\* with broken and working links, whose total differs from both numbers of
\* the summary line.
C9_Witness ==
  /\ state = "Summarized"
  /\ Len(collection) > SampleLimit
  /\ brokenLinksCount = 2
  /\ totalLinks = 4

\* C10: no check is started and no fetch is issued before the checking pass
\* or on the way to NoLinksFound, and whenever a check has been started the
\* total of the counting pass has already been printed, before any event of
\* a check.
C10_ChecksOnlyWhenChecking ==
  /\ ~Checking => lastCheck = NoCheck /\ awaiting = "none" /\ errlog = <<>>
  /\ (lastCheck # NoCheck \/ awaiting # "none") =>
       /\ Checking
       /\ \E i \in 1..Len(output) :
            /\ output[i] = [type |-> "total", total |-> totalLinks]
            /\ \A j \in 1..i : ~IsCheckEvent(output[j])

\* C10 witness: the first probe of the checking pass is in flight.
C10_Witness ==
  /\ state = "CheckingPass"
  /\ awaiting = "probe"
  /\ currentLink = 1
  /\ lastCheck.requests = <<"HEAD">>

====
